---- MODULE Spec2Model ----
(***************************************************************************)
(* Model of CategoriesServiceV1 (src/v1/categories.service.ts): the facet  *)
(* selector parser, the category/option resolution pipeline of findOne,    *)
(* and the removeBase64 maintenance sweep, over a small document store.    *)
(*                                                                         *)
(* Strings that the code takes apart (the request path, url tokens, image  *)
(* field values) are sequences of one-character strings.  Strings that are *)
(* only compared (names) are TLA+ strings.  An optional field is a         *)
(* sequence of length 0 (absent) or 1 (present).                           *)
(***************************************************************************)
EXTENDS Integers, Sequences, FiniteSets, TLC

VARIABLES
    category,      \* Category collection: id -> document
    product,       \* Product collection: id -> document
    option,        \* ProductOption collection: id -> document
    pav,           \* ProductAttributeValue collection: id -> document
    filterValue,   \* FilterValue collection: id -> document
    gallery,       \* ProductGallery collection: id -> document
    res,           \* outcome of the last findOne request
    parsed,        \* input and result of the last extractUrlParameters call
    sweepPc,       \* position of the running removeBase64 (0 = not running)
    runs,          \* completed removeBase64 runs
    store0,        \* image fields of the store before the first sweep
    findPc,        \* position of the step-wise findOne request
    loc            \* locals of the step-wise findOne request

vars == <<category, product, option, pav, filterValue, gallery, res, parsed,
          sweepPc, runs, store0, findPc, loc>>

storeVars == <<category, product, option, pav, filterValue, gallery>>

-----------------------------------------------------------------------------
(* Bounds *)

MaxUrlLen == 8     \* longest request path enumerated by the parser check
MaxRuns == 2       \* removeBase64 runs in a row

-----------------------------------------------------------------------------
(* Character strings *)

\* JavaScript `undefined` (a destructured value that is not there)
UNDEF == <<"undefined">>

Range(s) == {s[i] : i \in 1..Len(s)}

NoDup(s) == \A i, j \in 1..Len(s) : s[i] = s[j] => i = j

RECURSIVE Flat(_)
\* Array.prototype.flat(): one level of nesting removed
Flat(ss) == IF ss = <<>> THEN <<>> ELSE Head(ss) \o Flat(Tail(ss))

StartsAt(s, sep, i) ==
    /\ i + Len(sep) - 1 <= Len(s)
    /\ SubSeq(s, i, i + Len(sep) - 1) = sep

RECURSIVE Split(_, _)
\* String.prototype.split(sep) for a non-empty separator: leftmost matches,
\* scanning resumes after each match; no match yields the whole string.
Split(s, sep) ==
    LET hits == {i \in 1..Len(s) : StartsAt(s, sep, i)}
    IN  IF hits = {}
        THEN <<s>>
        ELSE LET i == CHOOSE h \in hits : \A g \in hits : h <= g
             IN  <<SubSeq(s, 1, i - 1)>>
                 \o Split(SubSeq(s, i + Len(sep), Len(s)), sep)

Digits == {"0", "1", "2", "3", "4", "5", "6", "7", "8", "9"}

DigitVal(c) ==
    CASE c = "0" -> 0 [] c = "1" -> 1 [] c = "2" -> 2 [] c = "3" -> 3
      [] c = "4" -> 4 [] c = "5" -> 5 [] c = "6" -> 6 [] c = "7" -> 7
      [] c = "8" -> 8 [] c = "9" -> 9

RECURSIVE NumVal(_)
NumVal(s) == IF s = <<>> THEN 0
             ELSE 10 * NumVal(SubSeq(s, 1, Len(s) - 1)) + DigitVal(s[Len(s)])

AllDigits(s) == \A i \in 1..Len(s) : s[i] \in Digits

\* isNaN(Number(value)) over the values the parser can meet: undefined is
\* NaN, the empty string is 0, a digit string is a number, and a string
\* holding a non-digit character of the alphabet is NaN.
IsNaNNumber(value) ==
    IF value = UNDEF THEN TRUE ELSE ~AllDigits(value)

\* value.toString() of a string
valueToString(value) == value

\* A property key that JavaScript treats as an array index: Object.values
\* lists these first, in ascending numeric order.
IsIndexKey(k) == k # <<>> /\ AllDigits(k) /\ (k[1] # "0" \/ Len(k) = 1)

-----------------------------------------------------------------------------
(* SelectorParser: extractUrlParameters *)

HasKey(acc, k) == \E i \in 1..Len(acc) : acc[i].key = k

\* acc[key] = acc[key] || []; acc[key].push(...)
\* acc is the object as the list of its own properties in insertion order.
PushParam(acc, k, v) ==
    LET pushed == IF IsNaNNumber(v) THEN v ELSE valueToString(v)
    IN  IF HasKey(acc, k)
        THEN [i \in 1..Len(acc) |->
                IF acc[i].key = k
                THEN [acc[i] EXCEPT !.vals = Append(@, pushed)]
                ELSE acc[i]]
        ELSE Append(acc, [key |-> k, vals |-> <<pushed>>])

RECURSIVE ReduceParams(_, _)
\* params.reduce((acc, [key, value]) => ..., {})
ReduceParams(acc, params) ==
    IF params = <<>> THEN acc
    ELSE LET p == Head(params)
             k == p[1]
             v == IF Len(p) >= 2 THEN p[2] ELSE UNDEF
         IN  ReduceParams(PushParam(acc, k, v), Tail(params))

RECURSIVE SortIndexKeys(_)
\* the index-like properties in ascending numeric order
SortIndexKeys(S) ==
    IF S = {} THEN <<>>
    ELSE LET m == CHOOSE e \in S : \A f \in S : NumVal(e.key) <= NumVal(f.key)
         IN  <<m>> \o SortIndexKeys(S \ {m})

\* Object.values(obj): index-like keys ascending, then the others in
\* insertion order
ObjectValues(acc) ==
    LET idx  == {acc[i] : i \in {j \in 1..Len(acc) : IsIndexKey(acc[j].key)}}
        rest == SelectSeq(acc, LAMBDA e : ~IsIndexKey(e.key))
        ord  == SortIndexKeys(idx) \o rest
    IN  [i \in 1..Len(ord) |-> ord[i].vals]

extractUrlParameters(url) ==
    LET parts     == Split(url, <<"_", "_">>)
        params    == [i \in 1..(Len(parts) - 1) |-> Split(parts[i + 1], <<"_">>)]
        getParams == ReduceParams(<<>>, params)
    IN  [getCategoryUrl |-> parts[1],
         getParams      |-> getParams,
         urlValues      |-> Flat(ObjectValues(getParams))]

-----------------------------------------------------------------------------
(* The document store *)

NumCategories == 3
NumProducts == 2
NumOptions == 3
MaxDeletes == 2    \* soft-delete operations applied to the catalogue

CategoryIds == 1..NumCategories
ProductIds == 1..NumProducts
OptionIds == 1..NumOptions
PavIds == 1..3
FilterValueIds == 1..2

\* deleted_at: null, or the time of the soft delete
NULL == "null"
DELETED == "2024-01-01"

\* an image field that is absent from its document
UNSET == <<"unset">>

Opt(S) == {<<>>} \cup {<<x>> : x \in S}

RECURSIVE SetToSeq(_)
\* the members of a set of ids in ascending order
SetToSeq(S) ==
    IF S = {} THEN <<>>
    ELSE LET m == CHOOSE x \in S : \A y \in S : x <= y
         IN  <<m>> \o SetToSeq(S \ {m})

\* The documents of a collection in its natural order: Model.find returns
\* those that satisfy its conditions, each once, in this order.
Collection(ids) == SetToSeq(ids)

Live(doc) == doc.deleted_at = NULL

\* populate({path: 'options', match: {deleted_at: null}}) on a product
PopulateOptions(p) ==
    LET refs == product[p].options
        kept == SelectSeq(refs, LAMBDA o : Live(option[o]))
    IN  [i \in 1..Len(kept) |-> [_id |-> kept[i]]]

\* populate({path: <products>, match: {deleted_at: null},
\*           populate: {path: 'options', match: {deleted_at: null}}})
PopulateProducts(refs) ==
    LET kept == SelectSeq(refs, LAMBDA p : Live(product[p]))
    IN  [i \in 1..Len(kept) |->
            [_id |-> kept[i],
             opengraph_image |-> product[kept[i]].opengraph_image,
             options |-> PopulateOptions(kept[i])]]

\* an ObjectId left in place by a path that was not populated
Unpopulated(refs) == [i \in 1..Len(refs) |-> [_id |-> refs[i]]]

\* populate({path: 'categories_viewed_with', populate: [products, child_products]})
PopulateViewedWith(refs) ==
    [i \in 1..Len(refs) |->
        [_id |-> refs[i],
         opengraph_image |-> category[refs[i]].opengraph_image,
         image |-> category[refs[i]].image,
         products |-> PopulateProducts(category[refs[i]].products),
         child_products |-> PopulateProducts(category[refs[i]].child_products)]]

\* categoryModel.findOne({url, deleted_at: null}): the first live match, or null
CategoryByUrlRaw(url) ==
    LET hit == SelectSeq(Collection(CategoryIds),
                    LAMBDA c : category[c].url = url /\ Live(category[c]))
    IN  IF hit = <<>> THEN <<>> ELSE <<hit[1]>>

\* the populate calls of getCategoryByUrl: products and categories_viewed_with
\* are populated, child_products of the category itself is not
PopulateCategory(c) ==
    [_id |-> c,
     opengraph_image |-> category[c].opengraph_image,
     image |-> category[c].image,
     products |-> PopulateProducts(category[c].products),
     child_products |-> Unpopulated(category[c].child_products),
     categories_viewed_with |-> PopulateViewedWith(category[c].categories_viewed_with)]

getCategoryByUrl(url) ==
    LET hit == CategoryByUrlRaw(url)
    IN  IF hit = <<>> THEN <<>> ELSE <<PopulateCategory(hit[1])>>

-----------------------------------------------------------------------------
(* FacetValueClassifier, AttributeMatcher, OptionAggregator *)

\* filterValueModel.find({url: {$in: urlValues}})
FindFilterValues(urlValues) ==
    SelectSeq(Collection(FilterValueIds), LAMBDA f : filterValue[f].url \in Range(urlValues))

processFilterValues(filterValues) ==
    [filterValuesAttributes |->
        Flat([i \in 1..Len(filterValues) |-> filterValue[filterValues[i]].attribute_value]),
     filterValuesOptions |->
        Flat([i \in 1..Len(filterValues) |-> filterValue[filterValues[i]].option_value]),
     getNamesFromFilterValues |->
        [i \in 1..Len(filterValues) |-> filterValue[filterValues[i]].name_ua]]

\* productAttributeValueModel.find({name_ua: {$in: names}}).populate(product ...)
\* A product that is soft-deleted or absent is populated as null.
FindProductAttributes(names) ==
    LET hit == SelectSeq(Collection(PavIds), LAMBDA a : pav[a].name_ua \in Range(names))
    IN  [i \in 1..Len(hit) |->
            [_id |-> hit[i],
             product |-> PopulateProducts(pav[hit[i]].product)]]

\* faulty variant: one lookup per listed id, a listed id answered as often as listed
FindOptionsPerId(ids) ==
    SelectSeq(ids, LAMBDA o : o \in OptionIds)

\* productOptionModel.find({_id: {$in: ids}}): no soft-delete condition
FindOptionsById(ids) ==
    SelectSeq(Collection(OptionIds), LAMBDA o : o \in Range(ids))

getProductOptions(filterValuesOptions, productAttributes) ==
    [optionsByProductAttributes |->
        Flat([i \in 1..Len(productAttributes) |->
                IF productAttributes[i].product # <<>>
                THEN productAttributes[i].product[1].options
                ELSE <<>>]),
     productOptions |->
        LET found == FindOptionsById(filterValuesOptions)
        IN  [i \in 1..Len(found) |-> [_id |-> found[i]]]]

\* product.options.map(option => option._id) throws a TypeError when the
\* product is an ObjectId that was never populated (options is undefined)
HasOptions(p) == "options" \in DOMAIN p

OptionIdsOf(products) ==
    Flat([i \in 1..Len(products) |->
            [j \in 1..Len(products[i].options) |-> products[i].options[j]._id]])

combineOptions(cat, optionsByProductAttributes, productOptions) ==
    IF \E i \in 1..Len(cat.child_products) : ~HasOptions(cat.child_products[i])
    THEN [threw |-> TRUE, assignAttributesAndOptions |-> <<>>, allOptionIds |-> <<>>]
    ELSE [threw |-> FALSE,
          assignAttributesAndOptions |-> optionsByProductAttributes \o productOptions,
          allOptionIds |-> OptionIdsOf(cat.child_products) \o OptionIdsOf(cat.products)]

\* the find of queryFinalOptions with its where('deleted_at').equals(null)
queryFinalOptionIds(assignAttributesAndOptions, allOptionIds) ==
    LET uniqueOptionIds ==
            [i \in 1..Len(assignAttributesAndOptions) |-> assignAttributesAndOptions[i]._id]
        wanted == IF Len(uniqueOptionIds) > 0 THEN uniqueOptionIds ELSE allOptionIds
    IN  SelectSeq(FindOptionsById(wanted), LAMBDA o : Live(option[o]))

\* populate({path: 'product'}): no match condition
HydrateProduct(o) ==
    [_id |-> option[o].product,
     opengraph_image |-> product[option[o].product].opengraph_image]

\* populate({path: 'gallery', match: {deleted_at: null}}) under the product
HydrateGalleryLive(o) ==
    LET g == product[option[o].product].gallery
    IN  IF Live(gallery[g]) THEN <<[_id |-> g, image |-> gallery[g].image]>> ELSE <<>>

\* populate({path: 'gallery'}) under the product
HydrateGallery(o) ==
    LET g == product[option[o].product].gallery
    IN  <<[_id |-> g, image |-> gallery[g].image]>>

Assemble(ids, products, galleries) ==
    [i \in 1..Len(ids) |->
        [_id |-> ids[i], product |-> products[i], gallery |-> galleries[i]]]

queryFinalOptions(assignAttributesAndOptions, allOptionIds) ==
    LET ids == queryFinalOptionIds(assignAttributesAndOptions, allOptionIds)
    IN  Assemble(ids,
                 [i \in 1..Len(ids) |-> HydrateProduct(ids[i])],
                 [i \in 1..Len(ids) |-> HydrateGalleryLive(ids[i])])

-----------------------------------------------------------------------------
(* ViewedWithAssembler *)

\* optionsForViewedWithArray: per viewed-with category, the options of its
\* child products and then of its direct products
optionsForViewedWithIds(cat) ==
    Flat([i \in 1..Len(cat.categories_viewed_with) |->
            OptionIdsOf(cat.categories_viewed_with[i].child_products)
            \o OptionIdsOf(cat.categories_viewed_with[i].products)])

\* UtilityService.sortingOptionsByType: a stable ordering by an option type
\* that the catalogue of the model does not vary
sortingOptionsByType(options) == options

\* faulty variant: the flattened, already populated options used as they are
getOptionsViewedWithPerId(cat) == optionsForViewedWithIds(cat)

\* productOptionModel.find({_id: {$in: optionsForViewedWithIds}})
getOptionsViewedWithIds(cat) == FindOptionsById(optionsForViewedWithIds(cat))

getOptionsViewedWith(cat) ==
    LET ids == getOptionsViewedWithIds(cat)
    IN  sortingOptionsByType(
            Assemble(ids,
                     [i \in 1..Len(ids) |-> HydrateProduct(ids[i])],
                     [i \in 1..Len(ids) |-> HydrateGallery(ids[i])]))

-----------------------------------------------------------------------------
(* findOne *)

INTERNAL_SERVER_ERROR == 500
HTTP_OK == 200

NOT_FOUND_MESSAGE == "Category not found"
TYPE_ERROR_MESSAGE == "Cannot read properties of undefined (reading 'map')"
STORE_ERROR_MESSAGE == "store failure"

\* catch (error) { throw new HttpException({message: error.message}, 500) }
Rethrow(url, message) ==
    [kind |-> "HttpException", status |-> INTERNAL_SERVER_ERROR,
     message |-> message, url |-> url,
     category |-> <<>>, options |-> <<>>, optionsViewedWith |-> <<>>]

Success(url, cat, finalOptions, optionsViewedWith) ==
    [kind |-> "response", status |-> HTTP_OK, message |-> "", url |-> url,
     category |-> <<cat>>, options |-> finalOptions,
     optionsViewedWith |-> optionsViewedWith]

\* The attribute-matched options and the explicitly selected options of a
\* path, as findOne computes them (lines 70-84)
SelectedOptions(url) ==
    LET urlValues == extractUrlParameters(url).urlValues
        classes   == processFilterValues(FindFilterValues(urlValues))
    IN  getProductOptions(classes.filterValuesOptions,
                          FindProductAttributes(classes.getNamesFromFilterValues))

\* findOne(url) run against the store as it is; storeFails is a rejection
\* of one of the awaited store calls
findOne(url, storeFails) ==
    LET p   == extractUrlParameters(url)
        hit == getCategoryByUrl(p.getCategoryUrl)
    IN  IF storeFails THEN Rethrow(url, STORE_ERROR_MESSAGE)
        ELSE IF hit = <<>> THEN Rethrow(url, NOT_FOUND_MESSAGE)
        ELSE LET cat == hit[1]
                 sel == SelectedOptions(url)
                 comb == combineOptions(cat, sel.optionsByProductAttributes,
                                        sel.productOptions)
             IN  IF comb.threw THEN Rethrow(url, TYPE_ERROR_MESSAGE)
                 ELSE Success(url, cat,
                              queryFinalOptions(comb.assignAttributesAndOptions,
                                                comb.allOptionIds),
                              getOptionsViewedWith(cat))

-----------------------------------------------------------------------------
(* Image field values *)

\* the anchored pattern of removeBase64: ^data:image
DATA_IMAGE == <<"d", "a", "t", "a", ":", "i", "m", "a", "g", "e">>

\* "data:image/png"
DataUrl == DATA_IMAGE \o <<"/", "p", "n", "g">>
\* "xdata:image": the pattern occurs, but not at the start
Embedded == <<"x">> \o DATA_IMAGE
\* "data:imag": a proper prefix of the pattern
Truncated == SubSeq(DATA_IMAGE, 1, Len(DATA_IMAGE) - 1)
\* "a.png"
PlainUrl == <<"a", ".", "p", "n", "g">>

ImageValues == {UNSET, DataUrl, DATA_IMAGE, Embedded, Truncated, PlainUrl}

-----------------------------------------------------------------------------
(* The catalogue the requests run against *)

Slug(c) == IF c % 2 = 1 THEN <<"s">> ELSE <<"t">>

OwnerOf(o) == ((o - 1) % NumProducts) + 1

OptionDocs == [o \in OptionIds |-> [deleted_at |-> NULL, product |-> OwnerOf(o)]]

ProductDocs(img) ==
    [p \in ProductIds |->
        [deleted_at |-> NULL,
         options |-> SetToSeq({o \in OptionIds : OwnerOf(o) = p}),
         opengraph_image |-> img[p],
         gallery |-> p]]

GalleryDocs(img) == [g \in ProductIds |-> [deleted_at |-> NULL, image |-> img[g]]]

PavDocs ==
    [a \in PavIds |->
        CASE a = 1 -> [name_ua |-> "Color", product |-> <<1>>]
          [] a = 2 -> [name_ua |-> "Red", product |-> <<2>>]
          [] OTHER -> [name_ua |-> "Color", product |-> <<>>]]

\* categories other than the first: related categories with fixed products
OtherCategory(c) ==
    [url |-> Slug(c), deleted_at |-> NULL,
     products |-> <<1>>,
     child_products |-> IF c % 2 = 0 THEN <<1, 2>> ELSE <<>>,
     categories_viewed_with |-> <<>>,
     opengraph_image |-> UNSET, image |-> UNSET]

Idle == [kind |-> "idle"]

NoParse == [url |-> <<>>, done |-> FALSE]

QuietInit ==
    /\ res = Idle
    /\ parsed = NoParse
    /\ sweepPc = 0
    /\ runs = 0
    /\ store0 = <<>>
    /\ findPc = 0
    /\ loc = <<>>

\* request paths: s, n, s__c_r, s__o_4, s__c_r__o_4, s__r
Paths ==
    { <<"s">>,
      <<"n">>,
      <<"s", "_", "_", "c", "_", "r">>,
      <<"s", "_", "_", "o", "_", "4">>,
      <<"s", "_", "_", "c", "_", "r", "_", "_", "o", "_", "4">>,
      <<"s", "_", "_", "r">> }

Init ==
    /\ QuietInit
    /\ \E prods \in SUBSET ProductIds,
          child \in {<<>>, <<1>>},
          viewed \in {<<>>, SetToSeq(2..NumCategories)} :
          category = [c \in CategoryIds |->
                        IF c = 1
                        THEN [url |-> Slug(1), deleted_at |-> NULL,
                              products |-> SetToSeq(prods),
                              child_products |-> child,
                              categories_viewed_with |-> viewed,
                              opengraph_image |-> DataUrl, image |-> PlainUrl]
                        ELSE OtherCategory(c)]
    /\ product = ProductDocs([p \in ProductIds |-> PlainUrl])
    /\ gallery = GalleryDocs([g \in ProductIds |-> DataUrl])
    /\ option = OptionDocs
    /\ pav = PavDocs
    /\ \E name \in {"Color", "Red"},
          attr \in Opt({"Color"}),
          opt1 \in Opt({1}) :
          filterValue = [f \in FilterValueIds |->
                           IF f = 1
                           THEN [url |-> <<"r">>, name_ua |-> name,
                                 attribute_value |-> attr, option_value |-> opt1]
                           ELSE [url |-> <<"4">>, name_ua |-> "Size 42",
                                 attribute_value |-> <<>>, option_value |-> <<2>>]]

Deleted ==
    Cardinality({c \in CategoryIds : ~Live(category[c])})
    + Cardinality({p \in ProductIds : ~Live(product[p])})
    + Cardinality({o \in OptionIds : ~Live(option[o])})

\* GET /v1/:url
FindOne(url, storeFails) ==
    /\ res = Idle
    /\ res' = findOne(url, storeFails)
    /\ UNCHANGED <<storeVars, parsed, sweepPc, runs, store0, findPc, loc>>

\* the controller hands the outcome to the client
Reply ==
    /\ res # Idle
    /\ res' = Idle
    /\ UNCHANGED <<storeVars, parsed, sweepPc, runs, store0, findPc, loc>>

\* the catalogue manager marks a document deleted (between requests)
SoftDeleteCategory(c) ==
    /\ res = Idle /\ Deleted < MaxDeletes /\ Live(category[c])
    /\ category' = [category EXCEPT ![c].deleted_at = DELETED]
    /\ UNCHANGED <<product, option, pav, filterValue, gallery, res, parsed,
                   sweepPc, runs, store0, findPc, loc>>

SoftDeleteProduct(p) ==
    /\ res = Idle /\ Deleted < MaxDeletes /\ Live(product[p])
    /\ product' = [product EXCEPT ![p].deleted_at = DELETED]
    /\ UNCHANGED <<category, option, pav, filterValue, gallery, res, parsed,
                   sweepPc, runs, store0, findPc, loc>>

SoftDeleteOption(o) ==
    /\ res = Idle /\ Deleted < MaxDeletes /\ Live(option[o])
    /\ option' = [option EXCEPT ![o].deleted_at = DELETED]
    /\ UNCHANGED <<category, product, pav, filterValue, gallery, res, parsed,
                   sweepPc, runs, store0, findPc, loc>>

Next ==
    \/ \E url \in Paths, storeFails \in BOOLEAN : FindOne(url, storeFails)
    \/ Reply
    \/ \E c \in CategoryIds : SoftDeleteCategory(c)
    \/ \E p \in ProductIds : SoftDeleteProduct(p)
    \/ \E o \in OptionIds : SoftDeleteOption(o)

Spec == Init /\ [][Next]_vars

-----------------------------------------------------------------------------
(* Properties of the resolution pipeline, checked under Spec *)

Ids(docs) == [i \in 1..Len(docs) |-> docs[i]._id]

Count(s, x) == Cardinality({i \in 1..Len(s) : s[i] = x})

\* a request has been answered and no store call was rejected
Answered == res # Idle /\ res.message # STORE_ERROR_MESSAGE

\* the live category the request's slug names, if any
Resolved == CategoryByUrlRaw(extractUrlParameters(res.url).getCategoryUrl)

NoFacetTokens == extractUrlParameters(res.url).urlValues = <<>>

\* a live option of a live product
Purchasable(o) == Live(option[o]) /\ Live(product[option[o].product])

\* the options of the direct and the descendant-category products of c
ScopeOf(c) ==
    {o \in OptionIds :
        /\ Purchasable(o)
        /\ option[o].product \in Range(category[c].products)
                                 \cup Range(category[c].child_products)}

\* C1: a request without facet tokens for a live category is answered with
\* exactly the options of the category's direct and child products (each
\* once), soft-deleted ones left out; child products included.
C1_Fallback ==
    (Answered /\ NoFacetTokens /\ Resolved # <<>>) =>
        /\ res.kind = "response"
        /\ NoDup(Ids(res.options))
        /\ Range(Ids(res.options)) = ScopeOf(Resolved[1])

\* A: options matched through attributes, B: options selected explicitly
MatchedA == Range(Ids(SelectedOptions(res.url).optionsByProductAttributes))
MatchedB == Range(Ids(SelectedOptions(res.url).productOptions))

\* C2: whenever A \cup B is non-empty the answer's options are exactly the
\* members of A \cup B that are not soft-deleted; the category scope is
\* used only when A \cup B is empty.
C2_UnionReplacesScope ==
    (Answered /\ Resolved # <<>> /\ MatchedA \cup MatchedB # {}) =>
        /\ res.kind = "response"
        /\ Range(Ids(res.options)) =
              {o \in MatchedA \cup MatchedB : Live(option[o])}

\* C3: every option of an answer is not soft-deleted and neither is the
\* product that owns it.
C3_SoftDeleteExclusion ==
    res.kind = "response" =>
        \A i \in 1..Len(res.options) : Purchasable(res.options[i]._id)

\* the attribute payloads of the filter values whose url token is in the path
AttributePayloads(url) ==
    {filterValue[f].attribute_value[1] :
        f \in {g \in FilterValueIds :
                 /\ filterValue[g].url \in Range(extractUrlParameters(url).urlValues)
                 /\ filterValue[g].attribute_value # <<>>}}

\* C4: the attribute-matched options of a path are exactly the purchasable
\* options of the products owning an attribute value whose name is the
\* attribute payload of a filter value matched by the path.
C4_AttributeKeyedByPayload ==
    Answered =>
        MatchedA =
            {o \in OptionIds :
                /\ Purchasable(o)
                /\ \E a \in PavIds :
                      /\ pav[a].product = <<option[o].product>>
                      /\ pav[a].name_ua \in AttributePayloads(res.url)}

\* C5: a request whose slug names no live category ends in an error that is
\* not the outcome a data-store failure produces, and in no response.
C5_NotFoundDistinguishable ==
    (Answered /\ Resolved = <<>>) =>
        /\ res.kind # "response"
        /\ <<res.kind, res.status>> #
              <<findOne(res.url, TRUE).kind, findOne(res.url, TRUE).status>>

\* C6: the options of an answer hold each option identity at most once.
C6_Dedup ==
    res.kind = "response" => NoDup(Ids(res.options))

\* an answer whose selected options named one option twice (through an
\* attribute match and through an explicit selector)
C6_Witness ==
    /\ res.kind = "response"
    /\ \E o \in MatchedA \cap MatchedB : o \in Range(Ids(res.options))

\* C10 as stated: the viewed-with options of an answer repeat an option as
\* often as the flattened list of the viewed-with categories' products does.
C10_NoCollapsing ==
    res.kind = "response" =>
        \A o \in OptionIds :
            Count(Ids(res.optionsViewedWith), o) =
            Count(optionsForViewedWithIds(res.category[1]), o)

\* C10 amended: the flattened id list keeps repetitions, but the viewed-with
\* options of an answer are the result of one lookup by id and hold each
\* option of that list exactly once.
C10_OncePerOption ==
    res.kind = "response" =>
        /\ NoDup(Ids(res.optionsViewedWith))
        /\ Range(Ids(res.optionsViewedWith)) =
              Range(optionsForViewedWithIds(res.category[1]))

\* an answer for a category whose viewed-with categories reach one option
\* more than once
C10_Witness ==
    /\ res.kind = "response"
    /\ ~NoDup(optionsForViewedWithIds(res.category[1]))
    /\ res.optionsViewedWith # <<>>

-----------------------------------------------------------------------------
(* SelectorParser on its own: SpecParse *)

PathChars == {"_", "a", "4"}

RECURSIVE Strings(_)
\* the strings over PathChars of length n
Strings(n) ==
    IF n = 0 THEN {<<>>}
    ELSE {Append(s, c) : s \in Strings(n - 1), c \in PathChars}

FixedCatalogue ==
    /\ category = [c \in CategoryIds |-> OtherCategory(c)]
    /\ product = ProductDocs([p \in ProductIds |-> PlainUrl])
    /\ gallery = GalleryDocs([g \in ProductIds |-> PlainUrl])
    /\ option = OptionDocs
    /\ pav = PavDocs
    /\ filterValue = [f \in FilterValueIds |->
                        [url |-> <<"4">>, name_ua |-> "Size 42",
                         attribute_value |-> <<>>, option_value |-> <<f>>]]

InitParse ==
    /\ FixedCatalogue
    /\ res = Idle
    /\ \E n \in 0..MaxUrlLen : \E url \in Strings(n) :
          parsed = [url |-> url, done |-> FALSE]
    /\ sweepPc = 0 /\ runs = 0 /\ store0 = <<>> /\ findPc = 0 /\ loc = <<>>

\* findOne, line 63
Parse ==
    /\ ~parsed.done
    /\ parsed' = [url |-> parsed.url, done |-> TRUE,
                  out |-> extractUrlParameters(parsed.url)]
    /\ UNCHANGED <<storeVars, res, sweepPc, runs, store0, findPc, loc>>

NextParse == Parse

SpecParse == InitParse /\ [][NextParse]_vars

\* a facet segment with no single-underscore separator, or with an empty key
Malformed(pieces) == Len(pieces) < 2 \/ pieces[1] = <<>>

FacetSegments(url) ==
    LET parts == Split(url, <<"_", "_">>)
    IN  [i \in 1..(Len(parts) - 1) |-> Split(parts[i + 1], <<"_">>)]

\* C8: malformed facet segments add no key to the facet mapping and no
\* element (in particular no undefined one) to urlValues; the well-formed
\* segments are parsed as if the malformed ones were absent.
C8_MalformedDropped ==
    parsed.done =>
        LET wellFormed == SelectSeq(FacetSegments(parsed.url),
                                    LAMBDA ps : ~Malformed(ps))
            expected   == ReduceParams(<<>>, wellFormed)
        IN  /\ parsed.out.getParams = expected
            /\ parsed.out.urlValues = Flat(ObjectValues(expected))
            /\ UNDEF \notin Range(parsed.out.urlValues)

-----------------------------------------------------------------------------
(* ImageSanitizer: removeBase64 *)

\* faulty variant: the pattern without its anchor: data:image anywhere in the value
ContainsDataImage(v) ==
    /\ v # UNSET
    /\ \E i \in 1..Len(v) : StartsAt(v, DATA_IMAGE, i)

\* {$regex: '^data:image'}: the value is a string that starts with data:image
MatchesDataImage(v) ==
    /\ v # UNSET
    /\ Len(v) >= Len(DATA_IMAGE)
    /\ SubSeq(v, 1, Len(DATA_IMAGE)) = DATA_IMAGE

\* faulty variant: {$set: {[field]: ''}}: the field is kept, holding the empty string
SetEmpty(doc, field) == [doc EXCEPT ![field] = <<>>]

\* {$unset: {[field]: ''}}
Unset(doc, field) == [doc EXCEPT ![field] = UNSET]

\* model.updateMany({[field]: {$regex: '^data:image'}}, {$unset: {[field]: ''}})
updateMany(coll, field) ==
    [d \in DOMAIN coll |->
        IF MatchesDataImage(coll[d][field]) THEN Unset(coll[d], field) ELSE coll[d]]

\* POST /v1/remove-base64
SweepStart ==
    /\ sweepPc = 0 /\ runs < MaxRuns
    /\ sweepPc' = 1
    /\ UNCHANGED <<storeVars, res, parsed, runs, store0, findPc, loc>>

\* updateImageFields(categoryModel, ['opengraph_image', 'image']), first field
SweepCategoryOpengraph ==
    /\ sweepPc = 1
    /\ category' = updateMany(category, "opengraph_image")
    /\ sweepPc' = 2
    /\ UNCHANGED <<product, option, pav, filterValue, gallery, res, parsed,
                   runs, store0, findPc, loc>>

\* updateImageFields(categoryModel, ['opengraph_image', 'image']), second field
SweepCategoryImage ==
    /\ sweepPc = 2
    /\ category' = updateMany(category, "image")
    /\ sweepPc' = 3
    /\ UNCHANGED <<product, option, pav, filterValue, gallery, res, parsed,
                   runs, store0, findPc, loc>>

\* updateImageFields(productModel, ['opengraph_image'])
SweepProductOpengraph ==
    /\ sweepPc = 3
    /\ product' = updateMany(product, "opengraph_image")
    /\ sweepPc' = 4
    /\ UNCHANGED <<category, option, pav, filterValue, gallery, res, parsed,
                   runs, store0, findPc, loc>>

\* updateImageFields(productGalleryModel, ['image']); return 'success'
SweepGalleryImage ==
    /\ sweepPc = 4
    /\ gallery' = updateMany(gallery, "image")
    /\ sweepPc' = 0
    /\ runs' = runs + 1
    /\ UNCHANGED <<category, product, option, pav, filterValue, res, parsed,
                   store0, findPc, loc>>

Sweep ==
    \/ SweepStart
    \/ SweepCategoryOpengraph
    \/ SweepCategoryImage
    \/ SweepProductOpengraph
    \/ SweepGalleryImage

Snapshot == [category |-> category, product |-> product, gallery |-> gallery]

InitSweep ==
    /\ \E co \in ImageValues, ci \in ImageValues :
          category = [c \in CategoryIds |->
                        IF c = 1
                        THEN [OtherCategory(c) EXCEPT !.opengraph_image = co,
                                                      !.image = ci]
                        ELSE [OtherCategory(c) EXCEPT !.opengraph_image = DataUrl,
                                                      !.image = Embedded]]
    /\ \E po \in ImageValues :
          product = ProductDocs([p \in ProductIds |->
                                    IF p = 1 THEN po ELSE DATA_IMAGE])
    /\ \E gi \in ImageValues :
          gallery = GalleryDocs([g \in ProductIds |->
                                    IF g = 1 THEN gi ELSE Truncated])
    /\ option = OptionDocs
    /\ pav = PavDocs
    /\ filterValue = [f \in FilterValueIds |->
                        [url |-> <<"4">>, name_ua |-> "Size 42",
                         attribute_value |-> <<>>, option_value |-> <<f>>]]
    /\ res = Idle /\ parsed = NoParse
    /\ sweepPc = 0 /\ runs = 0
    /\ store0 = Snapshot
    /\ findPc = 0 /\ loc = <<>>

SpecSweep == InitSweep /\ [][Sweep]_vars

\* the value started with "data:image"
BeganWithDataImage(v) ==
    /\ Len(v) >= 10
    /\ <<v[1], v[2], v[3], v[4]>> = <<"d", "a", "t", "a">>
    /\ v[5] = ":"
    /\ <<v[6], v[7], v[8], v[9], v[10]>> = <<"i", "m", "a", "g", "e">>

Cleared(v) == IF BeganWithDataImage(v) THEN UNSET ELSE v

\* C7: once at least one run of removeBase64 has completed (and none is
\* under way) the store is the initial store with exactly the image fields
\* that started with "data:image" unset -- after one run and after any
\* number of further runs alike.
C7_SweepEndState ==
    (runs >= 1 /\ sweepPc = 0) =>
        /\ category = [c \in CategoryIds |->
              [store0.category[c] EXCEPT
                  !.opengraph_image = Cleared(@), !.image = Cleared(@)]]
        /\ product = [p \in ProductIds |->
              [store0.product[p] EXCEPT !.opengraph_image = Cleared(@)]]
        /\ gallery = [g \in ProductIds |->
              [store0.gallery[g] EXCEPT !.image = Cleared(@)]]
        /\ option = OptionDocs /\ pav = PavDocs

\* a second run has completed on a store where the first run cleared a field
\* and left a value that merely contains "data:image" alone
C7_Witness ==
    /\ runs >= 2 /\ sweepPc = 0
    /\ store0.category[1].image = DataUrl /\ category[1].image = UNSET
    /\ store0.product[1].opengraph_image = Embedded
    /\ product[1].opengraph_image = Embedded
    /\ store0.gallery[1].image = Truncated

-----------------------------------------------------------------------------
(* findOne store call by store call, beside a running sweep: SpecRace *)

RacePaths ==
    { <<"s">>,
      <<"n">>,
      <<"s", "_", "_", "c", "_", "r", "_", "_", "o", "_", "4">> }

Locals(url) ==
    [url |-> url, category |-> <<>>, filterValues |-> <<>>,
     productAttributes |-> <<>>, comb |-> <<>>,
     finalIds |-> <<>>, finalProducts |-> <<>>, finalGalleries |-> <<>>,
     vwIds |-> <<>>, vwProducts |-> <<>>, vwGalleries |-> <<>>]

raceOther == <<option, pav, filterValue, parsed, sweepPc, runs, store0>>

\* GET /v1/:url arrives; line 63
FindStart(url) ==
    /\ findPc = 0 /\ res = Idle
    /\ loc' = Locals(url)
    /\ findPc' = 1
    /\ UNCHANGED <<category, product, gallery, res, raceOther>>

\* line 66, the findOne query of getCategoryByUrl; line 67
LoadCategory ==
    /\ findPc = 1
    /\ LET hit == CategoryByUrlRaw(extractUrlParameters(loc.url).getCategoryUrl)
       IN  IF hit = <<>>
           THEN /\ res' = Rethrow(loc.url, NOT_FOUND_MESSAGE)
                /\ findPc' = 0
                /\ loc' = loc
           ELSE /\ loc' = [loc EXCEPT !.category =
                              [_id |-> hit[1],
                               opengraph_image |-> category[hit[1]].opengraph_image,
                               image |-> category[hit[1]].image]]
                /\ findPc' = 2
                /\ res' = res
    /\ UNCHANGED <<category, product, gallery, raceOther>>

\* the populate queries of getCategoryByUrl
LoadCategoryPaths ==
    /\ findPc = 2
    /\ loc' = [loc EXCEPT !.category =
                  [PopulateCategory(loc.category._id) EXCEPT
                      !.opengraph_image = loc.category.opengraph_image,
                      !.image = loc.category.image]]
    /\ findPc' = 3
    /\ UNCHANGED <<category, product, gallery, res, raceOther>>

\* line 70
LoadFilterValues ==
    /\ findPc = 3
    /\ loc' = [loc EXCEPT !.filterValues =
                  FindFilterValues(extractUrlParameters(loc.url).urlValues)]
    /\ findPc' = 4
    /\ UNCHANGED <<category, product, gallery, res, raceOther>>

\* line 73, getCategoryFilters: the filters are passed through to the answer
LoadFilters ==
    /\ findPc = 4
    /\ findPc' = 5
    /\ UNCHANGED <<category, product, gallery, res, loc, raceOther>>

\* lines 76-82
LoadProductAttributes ==
    /\ findPc = 5
    /\ loc' = [loc EXCEPT !.productAttributes =
                  FindProductAttributes(
                      processFilterValues(loc.filterValues).getNamesFromFilterValues)]
    /\ findPc' = 6
    /\ UNCHANGED <<category, product, gallery, res, raceOther>>

\* lines 84-86: getProductOptions, then combineOptions
LoadProductOptions ==
    /\ findPc = 6
    /\ LET sel  == getProductOptions(
                       processFilterValues(loc.filterValues).filterValuesOptions,
                       loc.productAttributes)
           comb == combineOptions(loc.category, sel.optionsByProductAttributes,
                                  sel.productOptions)
       IN  IF comb.threw
           THEN /\ res' = Rethrow(loc.url, TYPE_ERROR_MESSAGE)
                /\ findPc' = 0
                /\ loc' = loc
           ELSE /\ loc' = [loc EXCEPT !.comb = comb]
                /\ findPc' = 7
                /\ res' = res
    /\ UNCHANGED <<category, product, gallery, raceOther>>

\* line 88: the find of queryFinalOptions
FindFinalOptions ==
    /\ findPc = 7
    /\ loc' = [loc EXCEPT !.finalIds =
                  queryFinalOptionIds(loc.comb.assignAttributesAndOptions,
                                      loc.comb.allOptionIds)]
    /\ findPc' = 8
    /\ UNCHANGED <<category, product, gallery, res, raceOther>>

\* the populate of 'product' in queryFinalOptions
LoadFinalProducts ==
    /\ findPc = 8
    /\ loc' = [loc EXCEPT !.finalProducts =
                  [i \in 1..Len(loc.finalIds) |-> HydrateProduct(loc.finalIds[i])]]
    /\ findPc' = 9
    /\ UNCHANGED <<category, product, gallery, res, raceOther>>

\* the populates under 'product' in queryFinalOptions
LoadFinalGalleries ==
    /\ findPc = 9
    /\ loc' = [loc EXCEPT !.finalGalleries =
                  [i \in 1..Len(loc.finalIds) |-> HydrateGalleryLive(loc.finalIds[i])]]
    /\ findPc' = 10
    /\ UNCHANGED <<category, product, gallery, res, raceOther>>

\* line 91, helperService.getParentTreeCategories
LoadBreadcrumbs ==
    /\ findPc = 10
    /\ findPc' = 11
    /\ UNCHANGED <<category, product, gallery, res, loc, raceOther>>

\* line 92, helperService.getTagsForCategory
LoadTags ==
    /\ findPc = 11
    /\ findPc' = 12
    /\ UNCHANGED <<category, product, gallery, res, loc, raceOther>>

\* line 93: the find of getOptionsViewedWith
FindViewedWith ==
    /\ findPc = 12
    /\ loc' = [loc EXCEPT !.vwIds = getOptionsViewedWithIds(loc.category)]
    /\ findPc' = 13
    /\ UNCHANGED <<category, product, gallery, res, raceOther>>

\* the populate of 'product' in getOptionsViewedWith
LoadViewedWithProducts ==
    /\ findPc = 13
    /\ loc' = [loc EXCEPT !.vwProducts =
                  [i \in 1..Len(loc.vwIds) |-> HydrateProduct(loc.vwIds[i])]]
    /\ findPc' = 14
    /\ UNCHANGED <<category, product, gallery, res, raceOther>>

\* the populates under 'product' in getOptionsViewedWith; lines 252, 95-98
LoadViewedWithGalleries ==
    /\ findPc = 14
    /\ res' = Success(loc.url, loc.category,
                      Assemble(loc.finalIds, loc.finalProducts, loc.finalGalleries),
                      sortingOptionsByType(
                          Assemble(loc.vwIds, loc.vwProducts,
                                   [i \in 1..Len(loc.vwIds) |->
                                       HydrateGallery(loc.vwIds[i])])))
    /\ findPc' = 0
    /\ UNCHANGED <<category, product, gallery, loc, raceOther>>

InitRace ==
    /\ \E prods \in SUBSET ProductIds, child \in {<<>>, <<1>>},
          co \in {DataUrl, PlainUrl} :
          category = [c \in CategoryIds |->
                        IF c = 1
                        THEN [url |-> Slug(1), deleted_at |-> NULL,
                              products |-> SetToSeq(prods),
                              child_products |-> child,
                              categories_viewed_with |-> <<2>>,
                              opengraph_image |-> co, image |-> DataUrl]
                        ELSE [OtherCategory(c) EXCEPT !.image = DataUrl]]
    /\ \E po \in {DataUrl, Embedded} :
          product = ProductDocs([p \in ProductIds |-> po])
    /\ \E gi \in {DataUrl, PlainUrl} :
          gallery = GalleryDocs([g \in ProductIds |-> gi])
    /\ option = OptionDocs
    /\ pav = PavDocs
    /\ filterValue = [f \in FilterValueIds |->
                        IF f = 1
                        THEN [url |-> <<"r">>, name_ua |-> "Color",
                              attribute_value |-> <<"Color">>, option_value |-> <<>>]
                        ELSE [url |-> <<"4">>, name_ua |-> "Size 42",
                              attribute_value |-> <<>>, option_value |-> <<2>>]]
    /\ res = Idle /\ parsed = NoParse
    /\ sweepPc = 0 /\ runs = 0
    /\ store0 = [ref |-> [url \in RacePaths |-> findOne(url, FALSE)]]
    /\ findPc = 0 /\ loc = <<>>

NextRace ==
    \/ SweepStart
    \/ SweepCategoryOpengraph
    \/ SweepCategoryImage
    \/ SweepProductOpengraph
    \/ SweepGalleryImage
    \/ \E url \in RacePaths : FindStart(url)
    \/ LoadCategory
    \/ LoadCategoryPaths
    \/ LoadFilterValues
    \/ LoadFilters
    \/ LoadProductAttributes
    \/ LoadProductOptions
    \/ FindFinalOptions
    \/ LoadFinalProducts
    \/ LoadFinalGalleries
    \/ LoadBreadcrumbs
    \/ LoadTags
    \/ FindViewedWith
    \/ LoadViewedWithProducts
    \/ LoadViewedWithGalleries

SpecRace == InitRace /\ [][NextRace]_vars

\* the answer the request gets when no sweep runs
Reference == store0.ref[res.url]

\* an image field holds its pre-sweep value or is unset
ImageOk(v, v0) == v = v0 \/ v = UNSET

ProductsOk(ps, ps0) ==
    /\ Ids(ps) = Ids(ps0)
    /\ \A i \in 1..Len(ps) : ImageOk(ps[i].opengraph_image, ps0[i].opengraph_image)

OptionsOk(os, os0) ==
    /\ Ids(os) = Ids(os0)
    /\ \A i \in 1..Len(os) :
          /\ os[i].product._id = os0[i].product._id
          /\ ImageOk(os[i].product.opengraph_image, os0[i].product.opengraph_image)
          /\ Ids(os[i].gallery) = Ids(os0[i].gallery)
          /\ \A j \in 1..Len(os[i].gallery) :
                ImageOk(os[i].gallery[j].image, os0[i].gallery[j].image)

CategoryOk(c, c0) ==
    /\ c._id = c0._id
    /\ ImageOk(c.opengraph_image, c0.opengraph_image)
    /\ ImageOk(c.image, c0.image)
    /\ ProductsOk(c.products, c0.products)
    /\ Ids(c.child_products) = Ids(c0.child_products)
    /\ Ids(c.categories_viewed_with) = Ids(c0.categories_viewed_with)
    /\ \A i \in 1..Len(c.categories_viewed_with) :
          LET v == c.categories_viewed_with[i]
              v0 == c0.categories_viewed_with[i]
          IN  /\ ImageOk(v.opengraph_image, v0.opengraph_image)
              /\ ImageOk(v.image, v0.image)
              /\ ProductsOk(v.products, v0.products)
              /\ ProductsOk(v.child_products, v0.child_products)

\* C9: a request that ran beside the sweep ends with the outcome kind and
\* the option identities (options, optionsViewedWith) it has with no sweep
\* running; its payload differs at most in image fields, each holding its
\* pre-sweep value or being unset.
C9_SweepRace ==
    res # Idle =>
        /\ res.kind = Reference.kind
        /\ res.status = Reference.status
        /\ Range(Ids(res.options)) = Range(Ids(Reference.options))
        /\ Range(Ids(res.optionsViewedWith)) = Range(Ids(Reference.optionsViewedWith))
        /\ res.kind = "response" =>
              /\ CategoryOk(res.category[1], Reference.category[1])
              /\ OptionsOk(res.options, Reference.options)
              /\ OptionsOk(res.optionsViewedWith, Reference.optionsViewedWith)

\* an answer assembled while the first sweep was under way: the category was
\* read before its field was cleared, a product after
C9_Witness ==
    /\ res.kind = "response"
    /\ runs = 0 /\ sweepPc = 4
    /\ res.category[1].opengraph_image = DataUrl
    /\ category[1].opengraph_image = UNSET
    /\ \E i \in 1..Len(res.options) :
          /\ res.options[i].product.opengraph_image = UNSET
          /\ Reference.options[i].product.opengraph_image = DataUrl
          /\ res.options[i].gallery[1].image = DataUrl

====
